---- MODULE Spec2Model ----
(***************************************************************************)
(* Model of the AnkiRest flashcard programs: the SM-2 schedulers of        *)
(* archive/review_and_export_v2.py (AnkiSM2), archive/review_plain.py      *)
(* (SuperMemoSM2) and basketball_flashcards_server.py, and the SQLite      *)
(* store (cards, notes, revlog) AnkiSM2 keeps them in.                     *)
(***************************************************************************)
EXTENDS Integers, Sequences, FiniteSets, TLC

(***************************************************************************)
(* Python floats.  The schedulers compute the ease factor in IEEE-754      *)
(* binary64.  A float is modelled exactly, as a sign and a magnitude that  *)
(* counts units of 2^-60, held in NL limbs of 15 bits (least significant   *)
(* first); every operation computes the exact result and rounds it to 53   *)
(* significant bits, ties to even, as the hardware does.                   *)
(***************************************************************************)
Base == 2^15
LimbBits == 15
NL == 6
ScaleLimbs == 4

Limbs == 1..NL

BigZero == [i \in Limbs |-> 0]

\* the integer n (0 <= n < 2^30) in units of 2^-60
BigFromInt(n) ==
    [i \in Limbs |-> IF i = ScaleLimbs + 1 THEN n % Base
                     ELSE IF i = ScaleLimbs + 2 THEN n \div Base
                     ELSE 0]

RECURSIVE AddCarry(_, _, _)
AddCarry(a, b, i) ==
    IF i = 0 THEN 0 ELSE (a[i] + b[i] + AddCarry(a, b, i - 1)) \div Base

BigAdd(a, b) == [i \in Limbs |-> (a[i] + b[i] + AddCarry(a, b, i - 1)) % Base]

RECURSIVE SubBorrow(_, _, _)
SubBorrow(a, b, i) ==
    IF i = 0 THEN 0
    ELSE IF a[i] - b[i] - SubBorrow(a, b, i - 1) < 0 THEN 1 ELSE 0

\* a - b for a >= b
BigSub(a, b) ==
    [i \in Limbs |-> (Base + a[i] - b[i] - SubBorrow(a, b, i - 1)) % Base]

BigLess(a, b) ==
    \E i \in Limbs : a[i] < b[i] /\ \A j \in Limbs : j > i => a[j] = b[j]

RECURSIVE MulCarry(_, _, _)
MulCarry(a, k, i) ==
    IF i = 0 THEN 0 ELSE (a[i] * k + MulCarry(a, k, i - 1)) \div Base

\* a * k for a small integer 0 <= k < Base
BigMulSmall(a, k) == [i \in Limbs |-> (a[i] * k + MulCarry(a, k, i - 1)) % Base]

RECURSIVE DivRem(_, _, _)
DivRem(a, k, i) ==
    IF i > NL THEN 0 ELSE (DivRem(a, k, i + 1) * Base + a[i]) % k

\* the quotient of a by a small integer 0 < k < Base; DivRem(a, k, 1) is the remainder
BigDivSmall(a, k) == [i \in Limbs |-> (DivRem(a, k, i + 1) * Base + a[i]) \div k]

TopLimb(a) ==
    IF a = BigZero THEN 0
    ELSE CHOOSE i \in Limbs : a[i] # 0 /\ \A j \in Limbs : j > i => a[j] = 0

BitsOf(x) == CHOOSE n \in 0..LimbBits : x < 2^n /\ (n = 0 \/ 2^(n - 1) <= x)

BitLen(a) ==
    IF a = BigZero THEN 0
    ELSE LimbBits * (TopLimb(a) - 1) + BitsOf(a[TopLimb(a)])

\* bit n of a (bit 0 is the least significant)
BigBit(a, n) == (a[(n \div LimbBits) + 1] \div 2^(n % LimbBits)) % 2

\* some bit of a below bit n is set
LowNonZero(a, n) ==
    \E i \in Limbs :
        \/ i < (n \div LimbBits) + 1 /\ a[i] # 0
        \/ i = (n \div LimbBits) + 1 /\ a[i] % 2^(n % LimbBits) # 0

\* a with the bits below bit n cleared
ClearLow(a, n) ==
    [i \in Limbs |->
        IF i < (n \div LimbBits) + 1 THEN 0
        ELSE IF i = (n \div LimbBits) + 1 THEN a[i] - (a[i] % 2^(n % LimbBits))
        ELSE a[i]]

BigPow2(n) ==
    [i \in Limbs |-> IF i = (n \div LimbBits) + 1 THEN 2^(n % LimbBits) ELSE 0]

\* round a magnitude to 53 significant bits, ties to even; sticky says the
\* exact value lies strictly above a (a division's remainder)
Round53(a, sticky) ==
    LET d == BitLen(a) - 53 IN
    IF d <= 0 THEN a
    ELSE LET guard == BigBit(a, d - 1)
             rest  == LowNonZero(a, d - 1) \/ sticky
             lsb   == BigBit(a, d)
             t     == ClearLow(a, d)
         IN  IF guard = 1 /\ (rest \/ lsb = 1) THEN BigAdd(t, BigPow2(d)) ELSE t

Float(neg, mag) == [neg |-> neg /\ mag # BigZero, mag |-> mag]

\* float(n) for an integer 0 <= n < 2^30
FloatOfInt(n) == Float(FALSE, BigFromInt(n))

\* the float n / k of two small positive integers: a decimal literal such as
\* 0.08 (8 / 100) or the quotient factor / 1000.0
FloatDiv(n, k) ==
    Float(FALSE, Round53(BigDivSmall(BigFromInt(n), k), DivRem(BigFromInt(n), k, 1) # 0))

FloatNeg(x) == Float(~x.neg, x.mag)

FloatAdd(x, y) ==
    IF x.neg = y.neg THEN Float(x.neg, Round53(BigAdd(x.mag, y.mag), FALSE))
    ELSE IF BigLess(x.mag, y.mag) THEN Float(y.neg, Round53(BigSub(y.mag, x.mag), FALSE))
    ELSE Float(x.neg, Round53(BigSub(x.mag, y.mag), FALSE))

FloatSub(x, y) == FloatAdd(x, FloatNeg(y))

\* k * x for an integer -Base < k < Base (k converts to a float exactly)
FloatMulInt(k, x) ==
    IF k < 0 THEN Float(~x.neg, Round53(BigMulSmall(x.mag, 0 - k), FALSE))
    ELSE Float(x.neg, Round53(BigMulSmall(x.mag, k), FALSE))

FloatLess(x, y) ==
    IF x.neg # y.neg THEN x.neg
    ELSE IF x.neg THEN BigLess(y.mag, x.mag) ELSE BigLess(x.mag, y.mag)

\* max(1.3, x) without its floor
FloatMax_second(x, y) == y

\* Python's max(x, y): the first argument unless the second is greater
FloatMax(x, y) == IF FloatLess(x, y) THEN y ELSE x

\* the integer part of a magnitude
BigInt(a) == a[ScaleLimbs + 1] + Base * a[ScaleLimbs + 2]

\* int(x): truncation towards zero
FloatInt(x) == IF x.neg THEN 0 - BigInt(x.mag) ELSE BigInt(x.mag)

\* round(x) for x >= 0: the nearest integer, ties to even
FloatRound(x) ==
    LET n    == BigInt(x.mag)
        half == LimbBits * ScaleLimbs - 1
    IN  IF BigBit(x.mag, half) = 1 /\ (LowNonZero(x.mag, half) \/ n % 2 = 1)
        THEN n + 1 ELSE n

(***************************************************************************)
(* Bounds of the model.                                                    *)
(***************************************************************************)
\* add_card calls (AnkiSM2), POST /cards requests (server)
MaxAdd == 1
\* scheduler calls on the stores of Spec
MaxReviews == 2
\* clock steps after construction, each of one millisecond or of one day
MaxTicks == 1
\* scheduler calls on one card in the long runs of SpecSM2
MaxRun == 6
\* notes of AnkiFlashcardApp
MaxNotes == 2

MsPerSecond == 1000
MsPerDay == 86400000
\* the clock reading, in milliseconds, when the constructor starts
StartClock == 1000

\* quality ratings a caller may pass: 0..5 are valid
Qualities == (0 - 1)..6
ValidQualities == 0..5
\* the ratings passed to the stores of Spec: the ends of the valid range and
\* their neighbours outside it
StoreQualities == {0 - 1, 0, 5, 6}

(***************************************************************************)
(* The SM-2 arithmetic of AnkiSM2.apply_sm2_algorithm.                     *)
(***************************************************************************)
\* 0.1 - (5 - quality) * (0.08 + (5 - quality) * 0.02)
EaseDelta(quality) ==
    FloatSub(FloatDiv(1, 10),
             FloatMulInt(5 - quality,
                         FloatAdd(FloatDiv(8, 100),
                                  FloatMulInt(5 - quality, FloatDiv(2, 100)))))

EaseDeltas == [q \in Qualities |-> EaseDelta(q)]

MinEase == FloatDiv(13, 10)
FailPenalty == FloatDiv(2, 10)

\* new_ease_factor, from the stored factor (ease * 1000) and the quality
new_ease_factor(factor, quality) ==
    IF quality < 3
    THEN FloatMax(MinEase, FloatSub(FloatDiv(factor, 1000), FailPenalty))
    ELSE FloatMax(MinEase, FloatAdd(FloatDiv(factor, 1000), EaseDeltas[quality]))

\* int(new_ease_factor * 1000), the value written to cards.factor and revlog.factor
stored_factor(ease) == FloatInt(FloatMulInt(1000, ease))

\* the interval of a review that repeats the old interval from the third
\* success on
new_interval_repeated(interval, quality, ease) ==
    IF quality < 3 THEN 1
    ELSE IF interval = 0 THEN 1
    ELSE IF interval = 1 THEN 6
    ELSE interval

\* new_interval: 1 after a failure or a first success, 6 after the second,
\* then int(interval * new_ease_factor)
new_interval(interval, quality, ease) ==
    IF quality < 3 THEN 1
    ELSE IF interval = 0 THEN 1
    ELSE IF interval = 1 THEN 6
    ELSE FloatInt(FloatMulInt(interval, ease))

days_since_epoch(now) == now \div MsPerDay
current_time(now) == now \div MsPerSecond

\* the row of a review that writes left only when the card fails
sm2_row_left_kept(card, quality, now) ==
    LET ease == new_ease_factor(card.factor, quality)
        ivl == new_interval(card.ivl, quality, ease)
    IN  IF quality < 3
        THEN [card EXCEPT !.type = 1, !.queue = 1, !.due = current_time(now) + ivl * 60,
                          !.ivl = ivl, !.factor = stored_factor(ease),
                          !.lapses = card.lapses + 1, !.left = 3,
                          !.mod = current_time(now)]
        ELSE [card EXCEPT !.type = 2, !.queue = 2, !.due = days_since_epoch(now) + ivl,
                          !.ivl = ivl, !.factor = stored_factor(ease),
                          !.reps = card.reps + 1, !.mod = current_time(now)]

\* the row of a review that writes the queue of a passing card, not its type
sm2_row_queue_only(card, quality, now) ==
    LET ease == new_ease_factor(card.factor, quality)
        ivl == new_interval(card.ivl, quality, ease)
    IN  IF quality < 3
        THEN [card EXCEPT !.type = 1, !.queue = 1, !.due = current_time(now) + ivl * 60,
                          !.ivl = ivl, !.factor = stored_factor(ease),
                          !.lapses = card.lapses + 1, !.left = 3,
                          !.mod = current_time(now)]
        ELSE [card EXCEPT !.queue = 2, !.due = days_since_epoch(now) + ivl,
                          !.ivl = ivl, !.factor = stored_factor(ease),
                          !.reps = card.reps + 1, !.left = 0,
                          !.mod = current_time(now)]

\* the cards row apply_sm2_algorithm writes for a row, a quality 0..5 and a clock reading
sm2_row(card, quality, now) ==
    LET ease == new_ease_factor(card.factor, quality)
        ivl  == new_interval(card.ivl, quality, ease)
    IN  IF quality < 3
        THEN [card EXCEPT !.type = 1, !.queue = 1,
                          !.due = current_time(now) + ivl * 60,
                          !.ivl = ivl, !.factor = stored_factor(ease),
                          !.lapses = card.lapses + 1, !.left = 3,
                          !.mod = current_time(now)]
        ELSE [card EXCEPT !.type = 2, !.queue = 2,
                          !.due = days_since_epoch(now) + ivl,
                          !.ivl = ivl, !.factor = stored_factor(ease),
                          !.reps = card.reps + 1, !.left = 0,
                          !.mod = current_time(now)]

\* the revlog row with the new interval in both interval columns
revlog_row_new_ivl(card_id, card, quality, now, spent) ==
    LET ease == new_ease_factor(card.factor, quality)
        ivl == new_interval(card.ivl, quality, ease)
    IN  [id |-> now, cid |-> card_id, usn |-> 0 - 1, ease |-> quality + 1,
         ivl |-> ivl, lastIvl |-> ivl, factor |-> stored_factor(ease),
         time |-> spent, type |-> IF quality < 3 THEN 0 ELSE 1]

\* the revlog row apply_sm2_algorithm inserts
revlog_row(card_id, card, quality, now, spent) ==
    LET ease == new_ease_factor(card.factor, quality)
    IN  [id |-> now, cid |-> card_id, usn |-> 0 - 1, ease |-> quality + 1,
         ivl |-> new_interval(card.ivl, quality, ease), lastIvl |-> card.ivl,
         factor |-> stored_factor(ease), time |-> spent,
         type |-> IF quality < 3 THEN 0 ELSE 1]

(***************************************************************************)
(* Text.  A string is the sequence of its character codes.                 *)
(***************************************************************************)
FieldSeparator == 31

\* question + "\x1f" + answer
join_fields(question, answer) == question \o <<FieldSeparator>> \o answer

RECURSIVE SumOrd(_)
SumOrd(text) == IF text = <<>> THEN 0 ELSE Head(text) + SumOrd(Tail(text))

\* an unsigned 32-bit value as two 16-bit halves, and the number it stands
\* for when that number is below 2^31
Half == 65536
Zero32 == [hi |-> 0, lo |-> 0]
Number(word) == word.hi * Half + word.lo
\* n & 0xFFFFFFFF for 0 <= n < 2^31
Word32(n) == [hi |-> (n \div Half) % Half, lo |-> n % Half]

\* AnkiSM2.calculate_checksum: sum(ord(c) for c in text) & 0xFFFFFFFF
calculate_checksum(text) == Number(Word32(SumOrd(text)))

\* the sample flashcards of the constructors (the programs list ten of them)
basketball_cards == <<[question |-> <<81, 49>>, answer |-> <<65, 49>>]>>
NumSample == Len(basketball_cards)

\* the texts a caller passes to add_card
Questions == {<<72>>}
Answers == {<<89>>}

\* random.randint(1, 1000) of the constructor's sample notes draws from Jitters
Jitters == {1, 3}
\* random.randint(1, 1000) of add_card draws from AddJitters
AddJitters == {1}
\* random.randint(1, 10), the due position of a new card
NewDues == {1}
\* random.randint(3000, 15000), the simulated answer time of a revlog row
SpentTimes == {3000}
\* the fields_data a caller passes to add_note: none, one or two fields
FieldsData == {<<>>, <<<<72>>>>, <<<<72>>, <<89>>>>}
\* random.randrange(1 << 30, 1 << 31), the guid of a note of add_note
Guids == {2^30}
\* the characters { and } of a placeholder
LeftBrace == 123
RightBrace == 125
\* "{{" + field + "}}"
placeholder(field) == <<LeftBrace, LeftBrace>> \o field \o <<RightBrace, RightBrace>>

\* the field names F, B and FB
FieldF == <<70>>
FieldB == <<66>>
FieldFB == <<70, 66>>
\* a template of add_model: its question format and its answer format
Template(qfmt, afmt) == [qfmt |-> qfmt, afmt |-> afmt]
\* the (fields, templates) of the model a caller of SpecApp adds: two fields,
\* a card for each direction
ModelShapes ==
    {<<<<FieldF, FieldB>>,
       <<Template(placeholder(FieldF), placeholder(FieldB)),
         Template(placeholder(FieldB), placeholder(FieldF))>>>>}
\* the (fields, templates) a caller of SpecModels passes to add_model: both
\* fields referenced, one in each format; a template with one reference and
\* a template with none; the fields named in the reverse order, and "{F}";
\* placeholders of other names, "{{FB}}" and "{{F}"; no field; no template
ModelInputs ==
    ModelShapes \cup
    {<<<<FieldF, FieldB>>,
       <<Template(placeholder(FieldF), placeholder(FieldB))>>>>,
     <<<<FieldF, FieldB>>,
       <<Template(placeholder(FieldB), <<>>), Template(<<>>, <<>>)>>>>,
     <<<<FieldF, FieldB>>,
       <<Template(placeholder(FieldB) \o placeholder(FieldF),
                  <<LeftBrace>> \o FieldF \o <<RightBrace>>)>>>>,
     <<<<FieldF>>,
       <<Template(placeholder(FieldFB),
                  <<LeftBrace, LeftBrace>> \o FieldF \o <<RightBrace>>)>>>>,
     <<<<>>, <<Template(placeholder(FieldF), <<>>)>>>>,
     <<<<FieldF, FieldB>>, <<>>>>}
\* random.randint(1000, 9999), the card_id of a FlashCard
FlashCardIds == {1000, 9999}

(***************************************************************************)
(* State.                                                                  *)
(***************************************************************************)
VARIABLES
    impl,     \* the program that runs: "AnkiSM2", "SuperMemoSM2", "server", ...
    clock,    \* time.time() * 1000, the wall clock in milliseconds
    col,      \* the models and the decks documents of the col row
    notes,    \* AnkiSM2: the notes table as the open connection sees it, id -> row
    cards,    \* AnkiSM2: the cards table as the open connection sees it, id -> row
    revlog,   \* AnkiSM2: the revlog table as the open connection sees it, a set of rows
    disk,     \* AnkiSM2: the committed tables, what a new connection reads
    run,      \* one card of the store under a long run of scheduler calls
    plain,    \* SuperMemoSM2.cards, the list of FlashCards
    steps,    \* SuperMemoSM2: update_card_with_sm2 calls made
    srv,      \* server: the cards table, id -> row
    media_files, \* AnkiFlashcardApp.media_files, the list of (filename, data)
    apkg,     \* the files of the last export: staging directory and archive
    last      \* the last call and how it ended, as its caller sees it

vars == <<impl, clock, col, notes, cards, revlog, disk, run, plain, steps, srv,
          media_files, apkg, last>>
anki == <<notes, cards, revlog, disk>>

NoRow == [type |-> 0 - 1]

Call(op, outcome, id, quality, before) ==
    [op |-> op, outcome |-> outcome, id |-> id, quality |-> quality, before |-> before]

NoCall == Call("none", "none", 0, 0, NoRow)

\* the ids of the constructor's run: the Basic model of create_tables, the
\* "Custom Model" of add_model, the "Basketball" deck of add_deck, each one
\* millisecond after the other
BasicModelId == StartClock
current_model_id == StartClock + 1
current_deck_id == StartClock + 2

\* the clock reading when the i-th sample note is created; a sleep of one
\* millisecond separates two of them
SampleTime(i) == StartClock + 2 + i
\* the clock reading when the constructor returns
ReadyClock == SampleTime(NumSample) + 1

new_note(note_id, question, answer, now) ==
    [guid |-> note_id, mid |-> current_model_id, mod |-> current_time(now),
     flds |-> join_fields(question, answer), sfld |-> question,
     csum |-> calculate_checksum(question)]

new_card(note_id, duepos, now) ==
    [nid |-> note_id, did |-> current_deck_id, ord |-> 0, mod |-> current_time(now),
     type |-> 0, queue |-> 0, due |-> duepos, ivl |-> 0, factor |-> 2500,
     reps |-> 0, lapses |-> 0, left |-> 0]

\* the AnkiSM2 class of review_and_export_v2.py and the AnkiSM2 class of
\* review_anki_schema.py: the same scheduler and add_card, but the second
\* has no add_model and no add_deck and writes fixed model and deck ids
AnkiSM2s == {"AnkiSM2", "AnkiSM2 (review_anki_schema)"}
\* review_anki_schema.py: add_card writes the model id 1
SchemaModelId == 1
\* the notes row and the cards row as the running program writes them
note_row(note, model_id) ==
    IF impl = "AnkiSM2" THEN note ELSE [note EXCEPT !.mid = model_id]
card_row(card) ==
    IF impl = "AnkiSM2" THEN card ELSE [card EXCEPT !.did = 1]

Tables(n, c, r) == [notes |-> n, cards |-> c, revlog |-> r]

\* a model of the models document: the number of its fields and of its
\* templates (the templates have the orders 0..tmpls-1), and its req list
Model(nflds, ntmpls, req) == [flds |-> nflds, tmpls |-> ntmpls, req |-> req]

\* _create_basic_model: fields Front and Back, one template, and the
\* literal "req": [[0, "any", [0]]]
basic_model == Model(2, 1, <<<<0, "any", <<0>>>>>>)

\* the "Custom Model" the constructor of AnkiSM2 adds: fields Question and
\* Answer, one template that names Question in qfmt and Answer in afmt
custom_model == Model(2, 1, <<<<0, "any", <<0, 1>>>>>>)

\* _create_default_deck: the deck "Default" with id 1
DefaultDeckId == 1

\* the models document (id -> model) and the ids of the decks document
\* the col table: the ids of its rows and the models and decks documents of
\* the row with id 1
Collection(models, decks) == [ids |-> {1}, models |-> models, decks |-> decks]
NoCollection == [ids |-> {}, models |-> <<>>, decks |-> {}]

NoRun == [card |-> NoRow, before |-> NoRow, quality |-> 0, passes |-> 0, n |-> 0]

\* FlashCard.__init__
FlashCard(question, answer, card_id, now) ==
    [card_id |-> card_id, question |-> question, answer |-> answer,
     repetition |-> 0, easiness |-> FloatDiv(25, 10), interval |-> 0,
     next_review |-> days_since_epoch(now)]

\* AnkiSM2.__init__ on an empty database: create_sample_basketball_cards gives
\* sample i the id int(time.time() * 1000) + random.randint(1, 1000), and the
\* constructor returns only when no two of these ids collide
InitAnkiSM2 ==
    \E jitter \in [1..NumSample -> Jitters], duepos \in [1..NumSample -> NewDues] :
        LET id(i) == SampleTime(i) + jitter[i]
            ids == {id(i) : i \in 1..NumSample}
            idx(n) == CHOOSE i \in 1..NumSample : id(i) = n
        IN  /\ \A i, j \in 1..NumSample : i # j => id(i) # id(j)
            /\ impl = "AnkiSM2"
            /\ col = Collection((BasicModelId :> basic_model) @@
                                (current_model_id :> custom_model),
                                {DefaultDeckId, current_deck_id})
            /\ notes = [n \in ids |->
                           new_note(n, basketball_cards[idx(n)].question,
                                    basketball_cards[idx(n)].answer, StartClock)]
            /\ cards = [n \in ids |-> new_card(n, duepos[idx(n)], StartClock)]
            /\ revlog = {}
            /\ disk = Tables(notes, cards, revlog)
            /\ plain = <<>>
            /\ srv = <<>>

\* AnkiSM2.__init__ of review_anki_schema.py on an empty database:
\* create_tables inserts the col row with '{}' for the models and for the
\* decks document, and create_sample_basketball_cards writes the samples
\* with the millisecond of its start as model id and 1 as deck id
InitAnkiSchema ==
    \E jitter \in [1..NumSample -> Jitters], duepos \in [1..NumSample -> NewDues] :
        LET id(i) == SampleTime(i) + jitter[i]
            ids == {id(i) : i \in 1..NumSample}
            idx(n) == CHOOSE i \in 1..NumSample : id(i) = n
        IN  /\ \A i, j \in 1..NumSample : i # j => id(i) # id(j)
            /\ impl = "AnkiSM2 (review_anki_schema)"
            /\ col = Collection(<<>>, {})
            /\ notes = [n \in ids |->
                           note_row(new_note(n, basketball_cards[idx(n)].question,
                                             basketball_cards[idx(n)].answer, StartClock),
                                    StartClock)]
            /\ cards = [n \in ids |-> card_row(new_card(n, duepos[idx(n)], StartClock))]
            /\ revlog = {}
            /\ disk = Tables(notes, cards, revlog)
            /\ plain = <<>>
            /\ srv = <<>>

\* SuperMemoSM2.__init__ without a saved file: the sample FlashCards
InitSuperMemoSM2 ==
    \E ids \in [1..NumSample -> FlashCardIds] :
        /\ impl = "SuperMemoSM2"
        /\ col = NoCollection
        /\ plain = [i \in 1..NumSample |->
                       FlashCard(basketball_cards[i].question, basketball_cards[i].answer,
                                 ids[i], ReadyClock)]
        /\ notes = <<>> /\ cards = <<>> /\ revlog = {}
        /\ disk = Tables(notes, cards, revlog)
        /\ srv = <<>>

\* AnkiFlashcardApp.initialize_database on a new file: the Basic model, the
\* Default deck, empty tables
InitAnkiFlashcardApp ==
    /\ impl = "AnkiFlashcardApp"
    /\ col = Collection(BasicModelId :> basic_model, {DefaultDeckId})
    /\ notes = <<>> /\ cards = <<>> /\ revlog = {}
    /\ disk = Tables(notes, cards, revlog)
    /\ plain = <<>>
    /\ srv = <<>>

\* server: init_db, an empty cards table and the col row with '{}' documents
InitServer ==
    /\ impl = "server"
    /\ col = Collection(<<>>, {})
    /\ srv = <<>>
    /\ notes = <<>> /\ cards = <<>> /\ revlog = {}
    /\ disk = Tables(notes, cards, revlog)
    /\ plain = <<>>

\* no export has run: no staging directory, no archive
NoApkg == [staging |-> FALSE, zip |-> <<>>, media |-> <<>>,
           collection |-> [notes |-> <<>>, cards |-> <<>>, revlog |-> {}]]

Ready ==
    /\ clock = ReadyClock
    /\ run = NoRun
    /\ steps = 0
    /\ media_files = <<>>
    /\ apkg = NoApkg
    /\ last = NoCall

Init ==
    /\ InitAnkiSM2 \/ InitSuperMemoSM2 \/ InitServer
    /\ clock = ReadyClock
    /\ run = NoRun
    /\ steps = 0
    /\ media_files = <<>>
    /\ apkg = NoApkg
    /\ last = NoCall

(***************************************************************************)
(* AnkiSM2.apply_sm2_algorithm(card_id, quality).  The UPDATE of the card  *)
(* and the INSERT of the revlog row run in one implicit transaction that   *)
(* the final commit ends; revlog.id is the primary key, so the INSERT      *)
(* raises sqlite3.IntegrityError when a row with this millisecond exists,  *)
(* and the method has no rollback: the UPDATE stays pending.               *)
(***************************************************************************)
RECURSIVE SumOver(_, _)
SumOver(f, S) ==
    IF S = {} THEN 0
    ELSE LET x == CHOOSE y \in S : TRUE IN f[x] + SumOver(f, S \ {x})

\* UPDATEs the scheduler has made to the rows the connection sees
Reviewed == SumOver([c \in DOMAIN cards |-> cards[c].reps + cards[c].lapses], DOMAIN cards)

\* card ids no row has when the constructor returns: 0, and the id add_card
\* gives a card it adds at once with the jitter 1
UnknownCardIds == {0, ReadyClock + 1}

\* the call with no check of the card id: nothing to update, a normal return
apply_sm2_algorithm_any_id(card_id, quality, spent) ==
    /\ impl \in AnkiSM2s
    /\ IF quality < 0 \/ quality > 5
       THEN /\ last' = Call("apply_sm2_algorithm", "ValueError: quality", 0, 0, NoRow)
            /\ UNCHANGED anki
       ELSE IF card_id \notin DOMAIN cards
       THEN /\ last' = Call("apply_sm2_algorithm", "ok", card_id, quality, NoRow)
            /\ UNCHANGED anki
       ELSE /\ cards' = [cards EXCEPT ![card_id] = sm2_row(cards[card_id], quality, clock)]
            /\ revlog' = revlog \cup
                           {revlog_row(card_id, cards[card_id], quality, clock, spent)}
            /\ disk' = Tables(notes, cards', revlog')
            /\ last' = Call("apply_sm2_algorithm", "ok", card_id, quality, cards[card_id])
            /\ UNCHANGED notes
    /\ UNCHANGED <<media_files, apkg, impl, col, clock, run, plain, steps, srv>>

\* raise ValueError(...): the caller sees the error, no statement has run
raise_ValueError(op, outcome) ==
    /\ last' = Call(op, outcome, 0, 0, NoRow)
    /\ UNCHANGED anki

\* the statements with INSERT OR REPLACE for the revlog row
update_and_replace(card_id, quality, spent) ==
    /\ cards' = [cards EXCEPT ![card_id] = sm2_row(cards[card_id], quality, clock)]
    /\ revlog' = {r \in revlog : r.id # clock} \cup
                   {revlog_row(card_id, cards[card_id], quality, clock, spent)}
    /\ disk' = Tables(notes, cards', revlog')
    /\ last' = Call("apply_sm2_algorithm", "ok", card_id, quality, cards[card_id])
    /\ UNCHANGED notes

\* the UPDATE of the card, the INSERT of the revlog row, the commit
update_and_log(card_id, quality, spent) ==
    /\ cards' = [cards EXCEPT ![card_id] = sm2_row(cards[card_id], quality, clock)]
    /\ IF \E r \in revlog : r.id = clock
       THEN /\ last' = Call("apply_sm2_algorithm", "IntegrityError",
                             card_id, quality, cards[card_id])
            /\ UNCHANGED <<notes, revlog, disk>>
       ELSE /\ revlog' = revlog \cup
                           {revlog_row(card_id, cards[card_id], quality, clock, spent)}
            /\ disk' = Tables(notes, cards', revlog')
            /\ last' = Call("apply_sm2_algorithm", "ok", card_id, quality, cards[card_id])
            /\ UNCHANGED notes

\* the call with the range check after the UPDATE
apply_sm2_algorithm_late_check(card_id, quality, spent) ==
    /\ impl \in AnkiSM2s
    /\ IF card_id \notin DOMAIN cards
       THEN /\ last' = Call("apply_sm2_algorithm", "ValueError: no card", 0, 0, NoRow)
            /\ UNCHANGED anki
       ELSE IF quality < 0 \/ quality > 5
       THEN /\ cards' = [cards EXCEPT ![card_id] = sm2_row(cards[card_id], quality, clock)]
            /\ last' = Call("apply_sm2_algorithm", "ValueError: quality", 0, 0, NoRow)
            /\ UNCHANGED <<notes, revlog, disk>>
       ELSE /\ cards' = [cards EXCEPT ![card_id] = sm2_row(cards[card_id], quality, clock)]
            /\ revlog' = revlog \cup
                           {revlog_row(card_id, cards[card_id], quality, clock, spent)}
            /\ disk' = Tables(notes, cards', revlog')
            /\ last' = Call("apply_sm2_algorithm", "ok", card_id, quality, cards[card_id])
            /\ UNCHANGED notes
    /\ UNCHANGED <<media_files, apkg, impl, col, clock, run, plain, steps, srv>>

apply_sm2_algorithm(card_id, quality, spent) ==
    /\ impl \in AnkiSM2s
    /\ IF quality < 0 \/ quality > 5
       THEN raise_ValueError("apply_sm2_algorithm", "ValueError: quality")
       ELSE IF card_id \notin DOMAIN cards
       THEN raise_ValueError("apply_sm2_algorithm", "ValueError: no card")
       ELSE update_and_log(card_id, quality, spent)
    /\ UNCHANGED <<media_files, apkg, impl, col, clock, run, plain, steps, srv>>

(***************************************************************************)
(* AnkiSM2.add_card(question, answer): one note and its card, the same id  *)
(* for both, then commit.  notes.id is the primary key: the INSERT raises  *)
(* sqlite3.IntegrityError when the id exists.                              *)
(***************************************************************************)
add_card(question, answer, jitter, duepos) ==
    /\ impl \in AnkiSM2s
    /\ LET note_id == clock + jitter IN
       IF note_id \in DOMAIN notes
       THEN /\ last' = Call("add_card", "IntegrityError", 0, 0, NoRow)
            /\ UNCHANGED anki
       ELSE /\ notes' = (note_id :> note_row(new_note(note_id, question, answer, clock),
                                             SchemaModelId)) @@ notes
            /\ cards' = (note_id :> card_row(new_card(note_id, duepos, clock))) @@ cards
            /\ disk' = Tables(notes', cards', revlog)
            /\ last' = Call("add_card", "ok", note_id, 0, NoRow)
            /\ UNCHANGED revlog
    /\ UNCHANGED <<media_files, apkg, impl, col, clock, run, plain, steps, srv>>

(***************************************************************************)
(* SuperMemoSM2.update_card_with_sm2(card, quality), the scheduler of the  *)
(* plain variant: the easiness moves for every valid quality, a failure    *)
(* resets repetition and interval to 0.                                    *)
(***************************************************************************)
sm2_card(card, quality, now) ==
    LET easiness == FloatMax(MinEase, FloatAdd(card.easiness, EaseDeltas[quality]))
        repetition == IF quality < 3 THEN 0 ELSE card.repetition + 1
        interval == IF quality < 3 THEN 0
                    ELSE IF repetition = 1 THEN 1
                    ELSE IF repetition = 2 THEN 6
                    ELSE FloatRound(FloatMulInt(card.interval, easiness))
    IN  [card EXCEPT !.easiness = easiness, !.repetition = repetition,
                     !.interval = interval,
                     !.next_review = days_since_epoch(now) + interval]

update_card_with_sm2(i, quality) ==
    /\ impl = "SuperMemoSM2"
    /\ IF quality < 0 \/ quality > 5
       THEN /\ last' = Call("update_card_with_sm2", "ValueError: quality", 0, 0, NoRow)
            /\ UNCHANGED <<plain, steps>>
       ELSE /\ plain' = [plain EXCEPT ![i] = sm2_card(plain[i], quality, clock)]
            /\ steps' = steps + 1
            /\ last' = Call("update_card_with_sm2", "ok", i, quality, plain[i])
    /\ UNCHANGED <<media_files, apkg, impl, col, clock, anki, run, srv>>

(***************************************************************************)
(* The server.  calculate_next_review(card, difficulty) multiplies the     *)
(* interval by the ease factor the card had before the review and checks   *)
(* no range of difficulty; process_review stores its result and adds one   *)
(* to repetitions whatever the difficulty was.                             *)
(***************************************************************************)
SecondsPerDay == MsPerDay \div MsPerSecond

calculate_next_review(card, difficulty, now) ==
    LET interval == IF difficulty < 3 THEN 1
                    ELSE IF card.repetitions = 0 THEN 1
                    ELSE IF card.repetitions = 1 THEN 6
                    ELSE FloatRound(FloatMulInt(card.interval, card.ease_factor))
        ease_factor == IF difficulty < 3
                       THEN FloatMax(MinEase, FloatSub(card.ease_factor, FailPenalty))
                       ELSE FloatMax(MinEase, FloatAdd(card.ease_factor, EaseDeltas[difficulty]))
    IN  [next_review |-> current_time(now) + interval * SecondsPerDay,
         interval |-> interval, ease_factor |-> ease_factor]

\* the row with the due date of the card left as it was
review_row_due_kept(card, difficulty, now) ==
    LET r == calculate_next_review(card, difficulty, now)
    IN  [card EXCEPT !.interval = r.interval, !.ease_factor = r.ease_factor,
                     !.repetitions = card.repetitions + 1]

review_row(card, difficulty, now) ==
    LET r == calculate_next_review(card, difficulty, now)
    IN  [card EXCEPT !.due_date = r.next_review, !.interval = r.interval,
                     !.ease_factor = r.ease_factor,
                     !.repetitions = card.repetitions + 1]

process_review(card_id, difficulty) ==
    /\ impl = "server"
    /\ IF card_id \in DOMAIN srv
       THEN /\ srv' = [srv EXCEPT ![card_id] = review_row(srv[card_id], difficulty, clock)]
            /\ last' = Call("process_review", "200", card_id, difficulty, srv[card_id])
       ELSE /\ last' = Call("process_review", "404", 0, 0, NoRow)
            /\ UNCHANGED srv
    /\ UNCHANGED <<media_files, apkg, impl, col, clock, anki, run, plain, steps>>

\* the row with the two texts in each other's column
server_card_swapped(front, back, now) ==
    [front |-> back, back |-> front, due_date |-> current_time(now),
     ease_factor |-> FloatDiv(25, 10), interval |-> 1, repetitions |-> 0]

\* the row of INSERT INTO cards (front, back, due_date) with the defaults of
\* init_db for the other columns
server_card(front, back, now) ==
    [front |-> front, back |-> back, due_date |-> current_time(now),
     ease_factor |-> FloatDiv(25, 10), interval |-> 1, repetitions |-> 0]

\* POST /cards: the id is the AUTOINCREMENT key, one more than the largest
\* ever given (no row is ever deleted)
post_card(front, back) ==
    /\ impl = "server"
    /\ LET id == Len(srv) + 1 IN
         /\ srv' = Append(srv, server_card(front, back, clock))
         /\ last' = Call("add_card", "201", id, 0, NoRow)
    /\ UNCHANGED <<media_files, apkg, impl, col, clock, anki, run, plain, steps>>

ServerReviewed == SumOver([c \in DOMAIN srv |-> srv[c].repetitions], DOMAIN srv)

(***************************************************************************)
(* The req list of add_model.                                              *)
(***************************************************************************)
\* Python's sub in text
contains(text, sub) ==
    \E k \in 0..(Len(text) - Len(sub)) : SubSeq(text, k + 1, k + Len(sub)) = sub

\* the loop over the fields from position j on, with the question format
\* alone deciding
RECURSIVE fields_required_qfmt(_, _, _)
fields_required_qfmt(j, fields, template) ==
    IF j >= Len(fields) THEN <<>>
    ELSE (IF contains(template.qfmt, placeholder(fields[j + 1]))
          THEN <<j>> ELSE <<>>) \o fields_required_qfmt(j + 1, fields, template)

\* for j, field in enumerate(fields), from position j on: fields_required
\* gets j appended when the placeholder of the field is in qfmt or in afmt
RECURSIVE fields_required(_, _, _)
fields_required(j, fields, template) ==
    IF j >= Len(fields) THEN <<>>
    ELSE (IF \/ contains(template.qfmt, placeholder(fields[j + 1]))
             \/ contains(template.afmt, placeholder(fields[j + 1]))
          THEN <<j>> ELSE <<>>) \o fields_required(j + 1, fields, template)

\* model["req"]: [i, "any", fields_required] for template i
requirements(fields, templates) ==
    [i \in 1..Len(templates) |-> <<i - 1, "any", fields_required(0, fields, templates[i])>>]

(***************************************************************************)
(* AnkiFlashcardApp.  Every method opens a connection of its own and       *)
(* commits at its end; when a statement raises, the method is left with no *)
(* rollback and no commit, and what it wrote is dropped with the           *)
(* connection when the next method opens a new one.                        *)
(***************************************************************************)
\* add_model(name, fields, templates): the id is the millisecond read, and
\* models[str(model_id)] = model replaces a model that has this id
add_model(fields, templates) ==
    /\ impl = "AnkiFlashcardApp"
    /\ col' = [col EXCEPT !.models =
                  (clock :> Model(Len(fields), Len(templates),
                                  requirements(fields, templates))) @@ col.models]
    /\ last' = Call("add_model", "ok", clock, 0, NoRow)
    /\ UNCHANGED <<media_files, apkg, impl, clock, anki, run, plain, steps, srv>>

\* add_deck(name): the id is the millisecond read
\* AnkiSM2.add_deck of review_and_export_v2.py starts with self.connect(),
\* which replaces self.conn and self.cursor: the connection they held is
\* closed with its transaction rolled back, and the new connection reads
\* the committed tables
add_deck ==
    /\ impl \in {"AnkiFlashcardApp", "AnkiSM2"}
    /\ col' = [col EXCEPT !.decks = col.decks \cup {clock}]
    /\ last' = Call("add_deck", "ok", clock, 0, NoRow)
    /\ IF impl = "AnkiSM2"
       THEN /\ notes' = disk.notes
            /\ cards' = disk.cards
            /\ revlog' = disk.revlog
            /\ UNCHANGED disk
       ELSE UNCHANGED anki
    /\ UNCHANGED <<media_files, apkg, impl, clock, run, plain, steps, srv>>

\* the models and the decks added to those of initialize_database
Added == Cardinality(DOMAIN col.models) + Cardinality(col.decks) - 2

\* "\x1f".join(fields_data)
RECURSIVE join(_)
join(fields_data) ==
    IF Len(fields_data) = 1 THEN Head(fields_data)
    ELSE Head(fields_data) \o <<FieldSeparator>> \o join(Tail(fields_data))

\* val * 31 + ord(c) without the mask: the high half keeps the overflow
checksum_step_unmasked(val, c) ==
    [hi |-> val.hi * 31 + (val.lo * 31 + c) \div Half, lo |-> (val.lo * 31 + c) % Half]

\* (val * 31 + ord(c)) & 0xFFFFFFFF on the two halves of val
checksum_step(val, c) ==
    [hi |-> (val.hi * 31 + (val.lo * 31 + c) \div Half) % Half,
     lo |-> (val.lo * 31 + c) % Half]

\* AnkiFlashcardApp._checksum: val = (val * 31 + ord(c)) & 0xFFFFFFFF over the
\* characters of the text
RECURSIVE checksum_from(_, _)
checksum_from(val, text) ==
    IF text = <<>> THEN val ELSE checksum_from(checksum_step(val, Head(text)), Tail(text))

_checksum(text) == Number(checksum_from(Zero32, text))

\* the notes row of add_note
app_note(model_id, fields_data, guid, now) ==
    [guid |-> guid, mid |-> model_id, mod |-> current_time(now),
     flds |-> join(fields_data), sfld |-> fields_data[1],
     csum |-> _checksum(fields_data[1])]

\* the cards row with the order of the first template for every template
app_card_first_order(note_id, deck_id, ord, now) ==
    [nid |-> note_id, did |-> deck_id, ord |-> 0, mod |-> current_time(now),
     type |-> 0, queue |-> 0, due |-> 0, ivl |-> 0, factor |-> 2500,
     reps |-> 0, lapses |-> 0, left |-> 0]

\* the cards row of add_note for one template
app_card(note_id, deck_id, ord, now) ==
    [nid |-> note_id, did |-> deck_id, ord |-> ord, mod |-> current_time(now),
     type |-> 0, queue |-> 0, due |-> 0, ivl |-> 0, factor |-> 2500,
     reps |-> 0, lapses |-> 0, left |-> 0]

\* the ids of the rows of the col table, which add_note looks a card id up in
ColIds == {1}

\* the milliseconds that pass between the clock reads of one call
Elapsed == {0, 1}

\* the clock readings of the template loop, as offsets from the reading that
\* gave the note id: one reading for each template, none before an earlier one
CardTimes(ntmpls) ==
    {t \in [0..(ntmpls - 1) -> Elapsed] :
        \A i, j \in 0..(ntmpls - 1) : i < j => t[i] <= t[j]}

\* add_note(model_id, deck_id, fields_data): models[str(model_id)] raises
\* KeyError for an unknown model and fields_data[0] raises IndexError for no
\* field; the note is inserted unless a note has its id; each template's card
\* gets the id of a new clock reading plus the order and is inserted unless
\* the col table has a row with that id; cards.id is the primary key.
add_note(model_id, deck_id, fields_data, guid, times) ==
    /\ impl = "AnkiFlashcardApp"
    /\ IF model_id \notin DOMAIN col.models
       THEN /\ last' = Call("add_note", "KeyError", 0, 0, NoRow)
            /\ UNCHANGED <<clock, anki>>
       ELSE IF fields_data = <<>>
       THEN /\ last' = Call("add_note", "IndexError", 0, 0, NoRow)
            /\ UNCHANGED <<clock, anki>>
       ELSE LET note_id == clock
                ords == 0..(col.models[model_id].tmpls - 1)
                card_id(o) == clock + times[o] + o
                inserted == {o \in ords : card_id(o) \notin ColIds}
                clash == {o \in inserted :
                            \/ card_id(o) \in DOMAIN cards
                            \/ \E e \in inserted : e < o /\ card_id(e) = card_id(o)}
                order_of(c) == CHOOSE o \in inserted : card_id(o) = c
                first == CHOOSE o \in clash : \A e \in clash : o <= e
                done == IF ords = {} THEN 0
                        ELSE times[CHOOSE o \in ords : \A e \in ords : e <= o]
            IN  IF clash # {}
                THEN /\ last' = Call("add_note", "IntegrityError", 0, 0, NoRow)
                     /\ clock' = clock + times[first]
                     /\ UNCHANGED anki
                ELSE /\ notes' = IF note_id \in DOMAIN notes THEN notes
                                 ELSE (note_id :> app_note(model_id, fields_data, guid, clock))
                                        @@ notes
                     /\ cards' = [c \in DOMAIN cards \cup {card_id(o) : o \in inserted} |->
                                    IF c \in DOMAIN cards THEN cards[c]
                                    ELSE app_card(note_id, deck_id, order_of(c), clock)]
                     /\ disk' = Tables(notes', cards', revlog)
                     /\ clock' = clock + done
                     /\ last' = Call("add_note", "ok", note_id, 0, NoRow)
                     /\ UNCHANGED revlog
    /\ UNCHANGED <<media_files, apkg, impl, col, run, plain, steps, srv>>

(***************************************************************************)
(* One card over a long run of reviews: the scheduler of the running       *)
(* program applied again and again to the row it produced, from a card of  *)
(* the store as the constructor or add_card left it.                       *)
(***************************************************************************)
Store ==
    IF impl = "SuperMemoSM2" THEN plain ELSE IF impl = "server" THEN srv ELSE cards

sm2_start ==
    /\ run = NoRun
    /\ \E c \in DOMAIN Store :
          run' = [card |-> Store[c], before |-> NoRow, quality |-> 0, passes |-> 0, n |-> 0]
    /\ UNCHANGED <<media_files, apkg, impl, col, clock, anki, plain, steps, srv, last>>

scheduled(card, quality, now) ==
    IF impl = "AnkiSM2" THEN sm2_row(card, quality, now)
    ELSE IF impl = "SuperMemoSM2" THEN sm2_card(card, quality, now)
    ELSE review_row(card, quality, now)

sm2_step(quality) ==
    /\ run # NoRun
    /\ run' = [card |-> scheduled(run.card, quality, clock), before |-> run.card,
               quality |-> quality,
               passes |-> IF quality < 3 THEN 0 ELSE run.passes + 1,
               n |-> run.n + 1]
    /\ UNCHANGED <<media_files, apkg, impl, col, clock, anki, plain, steps, srv, last>>

(***************************************************************************)
(* Time passes: the next call reads a later clock, one millisecond or one  *)
(* day later.                                                              *)
(***************************************************************************)
Ticks == ((clock - ReadyClock) \div MsPerDay) + ((clock - ReadyClock) % MsPerDay)

Tick ==
    /\ Ticks < MaxTicks
    /\ \E step \in {1, MsPerDay} : clock' = clock + step
    /\ UNCHANGED <<media_files, apkg, impl, col, anki, run, plain, steps, srv, last>>

(***************************************************************************)
(* Spec: the three stores under their operations.                          *)
(***************************************************************************)
Next ==
    \/ \E c \in DOMAIN cards \cup UnknownCardIds, q \in StoreQualities, t \in SpentTimes :
          Reviewed < MaxReviews /\ apply_sm2_algorithm(c, q, t)
    \/ \E q \in Questions, a \in Answers, j \in AddJitters, d \in NewDues :
          Cardinality(DOMAIN cards) < NumSample + MaxAdd /\ add_card(q, a, j, d)
    \/ \E i \in DOMAIN plain, q \in StoreQualities :
          steps < MaxReviews /\ update_card_with_sm2(i, q)
    \/ \E c \in DOMAIN srv \cup {0}, d \in StoreQualities :
          ServerReviewed < MaxReviews /\ process_review(c, d)
    \/ \E q \in Questions, a \in Answers :
          Len(srv) < MaxAdd /\ post_card(q, a)
    \/ Tick

Spec == Init /\ [][Next]_vars

(***************************************************************************)
(* SpecApp: the collection of AnkiFlashcardApp under add_model, add_deck   *)
(* and add_note; the clock moves while add_note runs.                      *)
(***************************************************************************)
InitApp == InitAnkiFlashcardApp /\ Ready

NextApp ==
    \/ \E shape \in ModelShapes :
          Added < MaxAdd /\ add_model(shape[1], shape[2])
    \/ Added < MaxAdd /\ add_deck
    \/ \E m \in DOMAIN col.models \cup {0}, d \in col.decks \cup {0},
          f \in FieldsData, g \in Guids :
          \E t \in CardTimes(IF m \in DOMAIN col.models THEN col.models[m].tmpls ELSE 0) :
              Cardinality(DOMAIN notes) < MaxNotes /\ add_note(m, d, f, g, t)

SpecApp == InitApp /\ [][NextApp]_vars

(***************************************************************************)
(* SpecSchema: the store of review_anki_schema.py under its scheduler and  *)
(* add_card.                                                               *)
(***************************************************************************)
InitSchema == InitAnkiSchema /\ Ready

NextSchema ==
    \/ \E c \in DOMAIN cards \cup UnknownCardIds, q \in StoreQualities, t \in SpentTimes :
          Reviewed < MaxReviews /\ apply_sm2_algorithm(c, q, t)
    \/ \E q \in Questions, a \in Answers, j \in AddJitters, d \in NewDues :
          Cardinality(DOMAIN cards) < NumSample + MaxAdd /\ add_card(q, a, j, d)
    \/ Tick

SpecSchema == InitSchema /\ [][NextSchema]_vars

(***************************************************************************)
(* SpecModels: the models and decks documents of AnkiFlashcardApp under    *)
(* add_model and add_deck, called in the same millisecond or later, while  *)
(* no more than MaxAdd of the models and decks they added are stored.      *)
(***************************************************************************)
NextModels ==
    \/ \E input \in ModelInputs :
          Added <= MaxAdd /\ add_model(input[1], input[2])
    \/ Added <= MaxAdd /\ add_deck
    \/ Tick

SpecModels == InitApp /\ [][NextModels]_vars

(***************************************************************************)
(* SpecSM2: one card of each program under runs of up to MaxRun reviews    *)
(* with every valid rating.                                                *)
(***************************************************************************)
NextSM2 ==
    \/ \E q \in Questions, a \in Answers :
          Len(srv) < 1 /\ post_card(q, a)
    \/ sm2_start
    \/ \E q \in ValidQualities :
          run.n < MaxRun /\ sm2_step(q)

SpecSM2 == Init /\ [][NextSM2]_vars

(***************************************************************************)
(* Properties of the schedulers, checked under SpecSM2 on the row `run`    *)
(* holds: run.before is the row a review found, run.card the row it left,  *)
(* run.quality its rating, run.passes the passing reviews in a row that    *)
(* end with it.                                                            *)
(***************************************************************************)
Max(a, b) == IF a < b THEN b ELSE a

\* x >= n / 10, compared exactly
AtLeastTenths(x, n) == ~x.neg /\ ~BigLess(BigMulSmall(x.mag, 10), BigFromInt(n))

AnkiReview == impl = "AnkiSM2" /\ run.n > 0
AnkiFail == AnkiReview /\ run.quality < 3
AnkiPass == AnkiReview /\ run.quality >= 3

\* C1: after any sequence of reviews with ratings in 0..5 the ease factor of
\* the card is at least 1.3: the stored factor of AnkiSM2 is at least 1300,
\* the easiness of SuperMemoSM2 and the ease_factor of the server at least 1.3.
C1_EaseAtLeastFloor ==
    run # NoRun =>
        IF impl = "AnkiSM2" THEN run.card.factor >= 1300
        ELSE IF impl = "SuperMemoSM2" THEN AtLeastTenths(run.card.easiness, 13)
        ELSE AtLeastTenths(run.card.ease_factor, 13)

\* the floor held a falling ease at 1300
C1_FloorReached ==
    AnkiFail /\ run.before.factor > 1300 /\ run.before.factor < 1500 /\ run.card.factor = 1300

\* C2: a failing review (quality < 3) leaves the card in learning
\* (type = queue = 1) with interval 1, ease max(1.3, old ease - 0.2), that is
\* factor max(1300, old factor - 200), lapses one more and left = 3.
C2_FailingReview ==
    AnkiFail =>
        /\ run.card.type = 1 /\ run.card.queue = 1
        /\ run.card.ivl = 1
        /\ run.card.factor = Max(1300, run.before.factor - 200)
        /\ run.card.lapses = run.before.lapses + 1
        /\ run.card.left = 3

\* C3: a passing review (quality >= 3) sets the interval to 1 if it was 0, to
\* 6 if it was 1, and otherwise to round(old interval x new ease factor).
C3_PassingInterval ==
    AnkiPass =>
        run.card.ivl =
            IF run.before.ivl = 0 THEN 1
            ELSE IF run.before.ivl = 1 THEN 6
            ELSE FloatRound(FloatMulInt(run.before.ivl,
                                        new_ease_factor(run.before.factor, run.quality)))

\* C4: a passing review of a card in any state adds one to reps, leaves
\* lapses alone, moves the card to review (type = queue = 2), sets left to 0
\* and due to today's day count plus the new interval; a new card rated 5
\* ends in review with interval 1.
C4_PassingReview ==
    AnkiPass =>
        /\ run.card.reps = run.before.reps + 1
        /\ run.card.lapses = run.before.lapses
        /\ run.card.type = 2 /\ run.card.queue = 2
        /\ run.card.left = 0
        /\ run.card.due = days_since_epoch(clock) + run.card.ivl
        /\ (run.before.type = 0 /\ run.quality = 5 => run.card.ivl = 1)

\* a card in learning, with lapses and steps left, passed a review
C4_LearningCardPassed ==
    AnkiPass /\ run.before.type = 1 /\ run.before.left = 3 /\ run.before.lapses > 0
             /\ run.card.type = 2

\* C5: on a passing review the factor written to the card is the old factor
\* plus 100 for quality 5, plus 0 for quality 4, minus 140 for quality 3,
\* floored at 1300.
C5_PassingEase ==
    AnkiPass =>
        run.card.factor =
            Max(1300, run.before.factor
                        + (IF run.quality = 5 THEN 100
                           ELSE IF run.quality = 4 THEN 0 ELSE 0 - 140))

\* the interval of the row of either card store
IntervalOf(card) == IF impl = "AnkiSM2" THEN card.ivl ELSE card.interval

\* C6: in a run of passing reviews of one card (AnkiSM2, SuperMemoSM2) the
\* interval never decreases from one review to the next, and from the third
\* success on it strictly increases.
C6_PassingIntervalsGrow ==
    impl # "server" =>
        /\ run.passes >= 2 => IntervalOf(run.card) >= IntervalOf(run.before)
        /\ run.passes >= 3 => IntervalOf(run.card) > IntervalOf(run.before)

\* a fourth success in a row of a card that lapsed before
C6_FourthPassAfterLapse ==
    impl = "AnkiSM2" /\ run.passes = 4 /\ run.card.lapses > 0
                     /\ run.card.ivl > run.before.ivl

(***************************************************************************)
(* Properties of the stores, checked under Spec.                           *)
(***************************************************************************)
BadQualities == Qualities \ ValidQualities

\* C7: a scheduler call with a rating outside 0..5 (apply_sm2_algorithm,
\* update_card_with_sm2) ends in an error and changes nothing: no card row is
\* modified and no review-log row is added.
C7_InvalidRatingRejected ==
    [][(\/ \E c \in DOMAIN cards \cup UnknownCardIds, q \in BadQualities, t \in SpentTimes :
             apply_sm2_algorithm(c, q, t)
        \/ \E i \in DOMAIN plain, q \in BadQualities :
             update_card_with_sm2(i, q))
       => /\ last'.outcome = "ValueError: quality"
          /\ UNCHANGED <<notes, cards, revlog, disk, plain>>]_vars

\* a rating outside 0..5 was rejected for a store with a reviewed card
C7_RejectedAfterReview ==
    /\ last.outcome = "ValueError: quality"
    /\ \/ impl = "AnkiSM2" /\ revlog # {}
       \/ impl = "SuperMemoSM2" /\ steps > 0

\* C8: apply_sm2_algorithm with a valid rating and a card id that is not in
\* the cards table ends in a not-found error and changes nothing: no card row
\* is modified and no review-log row is added.
C8_UnknownCardRejected ==
    [][(\E c \in UnknownCardIds \ DOMAIN cards, q \in ValidQualities, t \in SpentTimes :
            apply_sm2_algorithm(c, q, t))
       => /\ last'.outcome = "ValueError: no card"
          /\ UNCHANGED <<notes, cards, revlog, disk>>]_vars

\* an unknown card id was rejected for a store with a reviewed card
C8_RejectedAfterReview ==
    impl = "AnkiSM2" /\ last.outcome = "ValueError: no card" /\ revlog # {}

\* C9: the review log only grows: every apply_sm2_algorithm call that returns
\* normally adds exactly one row, for the reviewed card, and no operation
\* modifies or deletes a row, in the connection's view and on disk.
C9_RevlogAppendOnly ==
    [][/\ revlog \subseteq revlog'
       /\ disk.revlog \subseteq disk'.revlog
       /\ (last' # last /\ last'.op = "apply_sm2_algorithm" /\ last'.outcome = "ok")
          => \E r \in revlog' \ revlog :
                 /\ revlog' = revlog \cup {r}
                 /\ r.cid = last'.id
                 /\ disk'.revlog = revlog']_vars

\* two reviews have returned normally
C9_TwoRowsLogged ==
    last.op = "apply_sm2_algorithm" /\ last.outcome = "ok" /\ Cardinality(revlog) = 2

\* the reviews of a card the committed tables hold
CommittedReviews(c) == disk.cards[c].reps + disk.cards[c].lapses

\* C10: a scheduler call is all-or-nothing: the committed tables hold the
\* update of a card by a review and the review-log row of that review, or
\* neither, also after a later operation commits.
C10_UpdateAndLogTogether ==
    \A c \in DOMAIN disk.cards :
        CommittedReviews(c) = Cardinality({r \in disk.revlog : r.cid = c})

\* C11: the ease code of every review-log row lies in 1..4, whatever accepted
\* quality 0..5 the review had.
C11_EaseCodeRange ==
    \A r \in revlog : r.ease \in 1..4

\* the review-log row an accepted review adds
AddedRow == CHOOSE r \in revlog' \ revlog : TRUE

\* the step is an apply_sm2_algorithm call that returned normally (the record
\* of a call holds the row it found, so no two calls in a row leave the same)
Logged == last' # last /\ last'.op = "apply_sm2_algorithm" /\ last'.outcome = "ok"

\* C12: the review-log row of a review records ease = quality + 1, the new
\* interval of the card, the interval the card had before, the new stored
\* factor of the card (the factor column right after the update), and type 1
\* exactly when quality >= 3.
C12_RevlogRowFields ==
    [][Logged =>
        /\ revlog' # revlog
        /\ AddedRow.cid = last'.id
        /\ AddedRow.ease = last'.quality + 1
        /\ AddedRow.ivl = cards'[last'.id].ivl
        /\ AddedRow.lastIvl = cards[last'.id].ivl
        /\ AddedRow.factor = cards'[last'.id].factor
        /\ (AddedRow.type = 1) = (last'.quality >= 3)
        /\ AddedRow.type \in {0, 1}]_vars

\* a second success was logged: interval 6 after interval 1
C12_SecondSuccessLogged ==
    \E r \in revlog : r.type = 1 /\ r.lastIvl = 1 /\ r.ivl = 6 /\ r.factor = 2700

\* C13: identifiers are unique within their entity type, also for calls in
\* the same millisecond: a scheduler call never obtains a review-log id that
\* a row has, add_card and add_note never obtain a note id that a note has,
\* and add_note never obtains a card id that a card has.
C13_IdsUnique ==
    [][/\ (/\ last'.op = "apply_sm2_algorithm" /\ last'.id \in DOMAIN cards
           /\ \E t \in SpentTimes : apply_sm2_algorithm(last'.id, last'.quality, t))
          => ~\E r \in revlog : r.id = clock
       /\ \A j \in AddJitters :
             (\E q \in Questions, a \in Answers, d \in NewDues : add_card(q, a, j, d))
                => clock + j \notin DOMAIN notes
       /\ (last'.op = "add_note" /\ last' # last)
             => /\ last'.outcome # "IntegrityError"
                /\ last'.outcome = "ok" => last'.id \notin DOMAIN notes]_vars

\* C14: identifiers grow with real time: the note add_card creates once the
\* constructor has returned has a larger id than every sample note, which
\* the constructor created at an earlier clock reading.
C14_IdsGrowWithTime ==
    [][(/\ impl = "AnkiSM2" /\ Cardinality(DOMAIN notes) = NumSample
        /\ last'.op = "add_card" /\ last'.outcome = "ok"
        /\ notes' # notes)
       => \A n \in DOMAIN notes : last'.id > n]_vars

(***************************************************************************)
(* Properties of AnkiFlashcardApp.add_note, checked under SpecApp.         *)
(***************************************************************************)
\* the step is the call add_note(m, d, f, ...)
AddNoteCall(m, d, f) ==
    \E g \in Guids :
        \E t \in CardTimes(IF m \in DOMAIN col.models THEN col.models[m].tmpls ELSE 0) :
            add_note(m, d, f, g, t)

NewCards == DOMAIN cards' \ DOMAIN cards

\* C15: add_note on a model with k templates inserts exactly k cards for the
\* note, one for each template order 0..k-1, each in the given deck and new:
\* type 0, queue 0, interval 0, factor 2500, reps 0, lapses 0, left 0.
C15_OneNewCardPerTemplate ==
    [][\A m \in DOMAIN col.models, d \in col.decks \cup {0}, f \in FieldsData :
          (last'.outcome = "ok" /\ AddNoteCall(m, d, f))
          => /\ Cardinality(NewCards) = col.models[m].tmpls
             /\ {cards'[c].ord : c \in NewCards} = 0..(col.models[m].tmpls - 1)
             /\ \A c \in NewCards :
                   /\ cards'[c].nid = last'.id /\ cards'[c].did = d
                   /\ cards'[c].type = 0 /\ cards'[c].queue = 0
                   /\ cards'[c].ivl = 0 /\ cards'[c].factor = 2500
                   /\ cards'[c].reps = 0 /\ cards'[c].lapses = 0
                   /\ cards'[c].left = 0]_vars

\* a note of a model with two templates has its two cards
C15_TwoTemplateNote ==
    /\ last.op = "add_note" /\ last.outcome = "ok"
    /\ last.id \in DOMAIN notes
    /\ col.models[notes[last.id].mid].tmpls = 2
    /\ {cards[c].ord : c \in {x \in DOMAIN cards : cards[x].nid = last.id}} = {0, 1}

\* C16: add_note with a number of field values that differs from the field
\* count of the model fails and inserts no note row and no card row.
C16_FieldCountChecked ==
    [][\A m \in DOMAIN col.models, d \in col.decks, f \in FieldsData :
          (Len(f) # col.models[m].flds /\ AddNoteCall(m, d, f))
          => /\ last'.outcome # "ok"
             /\ UNCHANGED <<notes, cards>>]_vars

\* C17: add_note with a model_id or a deck_id that names no model or deck of
\* the collection fails and leaves the notes and cards tables unchanged.
C17_UnknownModelOrDeckRejected ==
    [][\A m \in DOMAIN col.models \cup {0}, d \in col.decks \cup {0}, f \in FieldsData :
          ((m \notin DOMAIN col.models \/ d \notin col.decks) /\ AddNoteCall(m, d, f))
          => /\ last'.outcome # "ok"
             /\ UNCHANGED <<notes, cards>>]_vars

\* C18: every card row references an existing note row (nid) and a deck of
\* the decks document (did).
C18_CardsReferenceNoteAndDeck ==
    \A c \in DOMAIN cards :
        cards[c].nid \in DOMAIN notes /\ cards[c].did \in col.decks

\* C19: no two card rows have the same (note id, template order) pair.
C19_OneCardPerNoteAndTemplate ==
    \A c, e \in DOMAIN cards :
        (cards[c].nid = cards[e].nid /\ cards[c].ord = cards[e].ord) => c = e

\* the cards the committed tables hold for a note
CommittedCardsOf(n) == {c \in DOMAIN disk.cards : disk.cards[c].nid = n}

\* C20: note and card insertion is all-or-nothing: the committed tables hold
\* a note together with exactly one card for each template of its model, and
\* no card without its note.
C20_NoteAndCardsTogether ==
    /\ \A c \in DOMAIN disk.cards : disk.cards[c].nid \in DOMAIN disk.notes
    /\ \A n \in DOMAIN disk.notes :
          Cardinality(CommittedCardsOf(n)) = col.models[disk.notes[n].mid].tmpls

\* C21: add_note called while a note row with the generated id exists is a
\* no-op: no note row and no card row is inserted, no error is raised, and
\* the store is left as it was.
C21_ExistingIdIsNoOp ==
    [][\A m \in DOMAIN col.models, d \in col.decks, f \in FieldsData \ {<<>>} :
          (clock \in DOMAIN notes /\ AddNoteCall(m, d, f))
          => /\ last'.outcome = "ok"
             /\ UNCHANGED <<notes, cards, revlog, disk>>]_vars

\* the step is the call add_model(fields, templates) with some input
AddModelCall == \E input \in ModelInputs : add_model(input[1], input[2])

\* C22: no two models and no two decks share an id: every add_model and
\* add_deck call gets an id no stored model or deck has, so the call adds one
\* model or deck to those stored and replaces none.
C22_ModelAndDeckIdsDistinct ==
    [][/\ AddModelCall
          => /\ clock \notin DOMAIN col.models
             /\ Cardinality(DOMAIN col'.models) = Cardinality(DOMAIN col.models) + 1
             /\ \A m \in DOMAIN col.models : col'.models[m] = col.models[m]
       /\ add_deck
          => /\ clock \notin col.decks
             /\ Cardinality(col'.decks) = Cardinality(col.decks) + 1]_vars

\* C23: the default deck always exists: after initialization and after any
\* calls, the decks document of the collection holds a deck with id 1.
C23_DefaultDeckExists == DefaultDeckId \in col.decks

\* the placeholder {{field}} occurs in the text at some position
Occurs(field, text) ==
    \E i \in 1..Len(text) :
        \A k \in 1..Len(placeholder(field)) :
            i + k - 1 <= Len(text) /\ text[i + k - 1] = placeholder(field)[k]

\* the positions of the fields a template refers to
Referenced(fields, template) ==
    {j \in 0..(Len(fields) - 1) :
        Occurs(fields[j + 1], template.qfmt) \/ Occurs(fields[j + 1], template.afmt)}

\* C24: the model add_model stores has, for each template i, the req entry
\* [i, "any", R] where R lists in increasing order exactly the positions of
\* the fields whose placeholder {{FieldName}} occurs in the question or the
\* answer format of the template; a template that names no field has an
\* empty R and its entry is stored all the same.
C24_RequiredFieldsOfTemplates ==
    [][\A input \in ModelInputs :
          add_model(input[1], input[2])
          => LET req == col'.models[clock].req IN
             /\ Len(req) = Len(input[2])
             /\ \A i \in 1..Len(input[2]) :
                   /\ req[i][1] = i - 1
                   /\ req[i][2] = "any"
                   /\ \A a, b \in 1..Len(req[i][3]) : a < b => req[i][3][a] < req[i][3][b]
                   /\ {req[i][3][a] : a \in 1..Len(req[i][3])}
                        = Referenced(input[1], input[2][i])]_vars

\* a stored model whose first template names the second field alone and
\* whose second template names no field, and a stored model whose template
\* names both fields
C24_EmptyAndFullRequirements ==
    /\ \E m \in DOMAIN col.models :
          col.models[m].req = <<<<0, "any", <<1>>>>, <<1, "any", <<>>>>>>
    /\ \E m \in DOMAIN col.models :
          col.models[m].flds = 2 /\ col.models[m].req = <<<<0, "any", <<0, 1>>>>>>

(***************************************************************************)
(* AnkiSM2.get_cards_due_today(): the SELECT over cards JOIN notes of the  *)
(* open connection, then the split of each flds on the separator; a row    *)
(* with fewer than two parts is left out of the result.                    *)
(***************************************************************************)
\* the SELECT with "c.due < ?" in place of "c.due <= ?"
due_cards_before(today) ==
    {c \in DOMAIN cards :
        /\ cards[c].nid \in DOMAIN notes
        /\ \/ cards[c].queue = 0
           \/ cards[c].queue = 2 /\ cards[c].due < today}

\* the SELECT that also returns the learning cards
due_cards_learning(today) ==
    {c \in DOMAIN cards :
        /\ cards[c].nid \in DOMAIN notes
        /\ \/ cards[c].queue \in {0, 1}
           \/ cards[c].queue = 2 /\ cards[c].due <= today}

\* the ids of the rows the SELECT returns
due_cards(today) ==
    {c \in DOMAIN cards :
        /\ cards[c].nid \in DOMAIN notes
        /\ \/ cards[c].queue = 0
           \/ cards[c].queue = 2 /\ cards[c].due <= today}

\* fields.split("\x1f")
RECURSIVE split(_)
split(text) ==
    IF \A k \in 1..Len(text) : text[k] # FieldSeparator THEN <<text>>
    ELSE LET k == CHOOSE i \in 1..Len(text) :
                     /\ text[i] = FieldSeparator
                     /\ \A h \in 1..(i - 1) : text[h] # FieldSeparator
         IN  <<SubSeq(text, 1, k - 1)>> \o split(SubSeq(text, k + 1, Len(text)))

get_cards_due_today ==
    /\ impl \in AnkiSM2s
    /\ LET today == days_since_epoch(clock)
           result == {[id |-> c,
                       question |-> split(notes[cards[c].nid].flds)[1],
                       answer |-> split(notes[cards[c].nid].flds)[2]] :
                      c \in {d \in due_cards(today) :
                                Len(split(notes[cards[d].nid].flds)) >= 2}}
       IN  last' = Call("get_cards_due_today", "ok", 0, 0, result)
    /\ UNCHANGED <<media_files, apkg, impl, clock, col, anki, run, plain, steps, srv>>

(***************************************************************************)
(* SpecDue: the store of review_and_export_v2.py under reviews, add_card   *)
(* and the query of the review session.                                    *)
(***************************************************************************)
InitDue == InitAnkiSM2 /\ Ready

NextDue ==
    \/ \E c \in DOMAIN cards, q \in StoreQualities, t \in SpentTimes :
          Reviewed < MaxReviews /\ apply_sm2_algorithm(c, q, t)
    \/ \E q \in Questions, a \in Answers, j \in AddJitters, d \in NewDues :
          Cardinality(DOMAIN cards) < NumSample + MaxAdd /\ add_card(q, a, j, d)
    \/ get_cards_due_today
    \/ Tick

SpecDue == InitDue /\ [][NextDue]_vars

\* C25: get_cards_due_today returns exactly the due cards: every card of
\* the new queue (queue = 0) and every card of the review queue (queue = 2)
\* whose due day is today or earlier, and no other card.
C25_ExactlyTheDueCards ==
    [][get_cards_due_today
       => {r.id : r \in last'.before}
            = {c \in DOMAIN cards :
                 \/ cards[c].queue = 0
                 \/ cards[c].queue = 2 /\ cards[c].due <= clock \div MsPerDay}]_vars

\* the query has returned a new card and a review card that falls due on
\* the day of the call, while a learning card or a review card of a later
\* day is not in an answer of the same day
C25_NewAndDueTodayReturned ==
    /\ last.op = "get_cards_due_today"
    /\ \E r \in last.before : cards[r.id].queue = 0
    /\ \E r \in last.before :
          cards[r.id].queue = 2 /\ cards[r.id].due = clock \div MsPerDay

(***************************************************************************)
(* Export.  AnkiFlashcardApp.export_apkg and AnkiSM2.export_to_apkg copy   *)
(* the database file into a new temporary directory, write the manifest    *)
(* and the media files next to it and zip the directory's files.  A step   *)
(* that touches the file system can raise OSError: fail names the step     *)
(* that does, "none" when no step does.                                    *)
(***************************************************************************)
MaxMedia == 2

\* the filename and the data a caller passes to add_media
MediaNames == {"hoop.png", "net.png"}
MediaData == {<<137>>}

\* AnkiFlashcardApp.add_media(filename, data)
add_media(filename, data) ==
    /\ impl = "AnkiFlashcardApp"
    /\ media_files' = Append(media_files, <<filename, data>>)
    /\ last' = Call("add_media", "ok", 0, 0, NoRow)
    /\ UNCHANGED <<apkg, impl, clock, col, anki, run, plain, steps, srv>>

\* str(i) of an index below ten
Digits == <<"0", "1", "2", "3", "4", "5", "6", "7", "8", "9">>
str(i) == Digits[i + 1]

\* the steps of an export that can fail
Failures == {"none", "copy", "manifest", "media", "zip"}

\* media_dict of export_apkg: str(i) -> the filename of the i-th media file
media_dict ==
    [k \in {str(i) : i \in 0..(Len(media_files) - 1)} |->
        media_files[(CHOOSE i \in 0..(Len(media_files) - 1) : str(i) = k) + 1][1]]

\* the names export_apkg writes into the archive, in the order of the writes
zip_names ==
    <<"collection.anki2", "media">> \o [i \in 1..Len(media_files) |-> str(i - 1)]

\* the archive after the first written of the names have been written
Archive(names, written) ==
    [zip |-> SubSeq(names, 1, written),
     media |-> IF written >= 2 THEN media_dict ELSE <<>>,
     collection |-> IF written >= 1 THEN disk ELSE NoApkg.collection]

\* the directory of tempfile.mkdtemp() after an export without a finally
\* clause: removed at the end of the try block only
staging_left(fail) == fail # "none"

\* the directory of tempfile.mkdtemp() after the finally clause
\* (shutil.rmtree), of tempfile.TemporaryDirectory() after the with block
staging(fail) == FALSE

\* AnkiFlashcardApp.export_apkg(output_filename): True when every step has
\* run, False (the exception is printed) when a step raises; written is the
\* number of entries in the archive when the zip step raises
export_apkg(fail, written) ==
    /\ impl = "AnkiFlashcardApp"
    /\ fail = "media" => media_files # <<>>
    /\ written <= Len(zip_names)
    /\ written = IF fail = "none" THEN Len(zip_names) ELSE written
    /\ apkg' = IF fail \in {"none", "zip"}
               THEN [staging |-> staging(fail)] @@ Archive(zip_names, written)
               ELSE [apkg EXCEPT !.staging = staging(fail)]
    /\ last' = Call("export_apkg", IF fail = "none" THEN "True" ELSE "False", 0, 0, NoRow)
    /\ UNCHANGED <<media_files, impl, clock, col, anki, run, plain, steps, srv>>

\* the OSError a caller catches, with the step that raised it
ExportFailure(fail) == [cause |-> fail]

\* AnkiSM2.export_to_apkg(output_path): the store has no media table, so
\* media_dict stays empty and no media file is written; the archive gets
\* collection.anki2, media and then every file of os.listdir(temp_dir),
\* which lists the same two files in an order of its own; an exception
\* leaves the method as it was raised
export_to_apkg(fail, written, listdir) ==
    /\ impl = "AnkiSM2"
    /\ fail # "media"
    /\ written <= 2 + Len(listdir)
    /\ written = IF fail = "none" THEN 2 + Len(listdir) ELSE written
    /\ apkg' = IF fail \in {"none", "zip"}
               THEN [staging |-> staging(fail)]
                      @@ Archive(<<"collection.anki2", "media">> \o listdir, written)
               ELSE [apkg EXCEPT !.staging = staging(fail)]
    /\ last' = IF fail = "none" THEN Call("export_to_apkg", "ok", 0, 0, NoRow)
               ELSE Call("export_to_apkg", "OSError", 0, 0, ExportFailure(fail))
    /\ UNCHANGED <<media_files, impl, clock, col, anki, run, plain, steps, srv>>

\* os.listdir of the temporary directory of export_to_apkg
Listings == {<<"collection.anki2", "media">>, <<"media", "collection.anki2">>}

(***************************************************************************)
(* SpecExport: both programs under the calls that fill the collection and  *)
(* under export.                                                           *)
(***************************************************************************)
InitExport == (InitAnkiSM2 \/ InitAnkiFlashcardApp) /\ Ready

NextExport ==
    \/ \E c \in DOMAIN cards, q \in StoreQualities, t \in SpentTimes :
          Reviewed < MaxReviews /\ apply_sm2_algorithm(c, q, t)
    \/ \E m \in DOMAIN col.models, d \in col.decks, f \in FieldsData, g \in Guids :
          \E t \in CardTimes(col.models[m].tmpls) :
              Cardinality(DOMAIN notes) < MaxNotes /\ add_note(m, d, f, g, t)
    \/ \E filename \in MediaNames, data \in MediaData :
          Len(media_files) < MaxMedia /\ add_media(filename, data)
    \/ \E fail \in Failures, written \in 0..(MaxMedia + 2) :
          export_apkg(fail, written)
    \/ \E fail \in Failures, written \in 0..4, listdir \in Listings :
          export_to_apkg(fail, written, listdir)

SpecExport == InitExport /\ [][NextExport]_vars

\* the last call was an export
Exported == last.op \in {"export_apkg", "export_to_apkg"}
\* the last call was an export that reported success to its caller
ExportedOk == Exported /\ last.outcome \in {"True", "ok"}
\* how often a name occurs among the entries of the archive
Entries(name) == Cardinality({i \in 1..Len(apkg.zip) : apkg.zip[i] = name})

\* C26: the archive of a successful export has exactly one entry
\* collection.anki2, exactly one entry media and exactly one entry per media
\* file, named by its index: n + 2 entries for n media files and no name
\* twice; the manifest maps each index string "i" to the filename of the
\* i-th media file.
C26_ArchiveEntries ==
    ExportedOk
    => /\ Len(apkg.zip) = Len(media_files) + 2
       /\ Entries("collection.anki2") = 1
       /\ Entries("media") = 1
       /\ \A i \in 0..(Len(media_files) - 1) : Entries(str(i)) = 1
       /\ DOMAIN apkg.media = {str(i) : i \in 0..(Len(media_files) - 1)}
       /\ \A i \in 0..(Len(media_files) - 1) : apkg.media[str(i)] = media_files[i + 1][1]

C28_FailureCarriesCause ==
    [][\A fail \in Failures, written \in 0..(MaxMedia + 2) :
          (\/ export_apkg(fail, written)
           \/ \E listdir \in Listings : export_to_apkg(fail, written, listdir))
          => /\ fail # "none"
                => /\ last'.outcome \notin {"True", "ok"}
                   /\ last'.before = ExportFailure(fail)
             /\ last'.outcome \in {"True", "ok"}
                => \A name \in {"collection.anki2", "media"}
                                \cup {str(i) : i \in 0..(Len(media_files) - 1)} :
                      \E i \in 1..Len(apkg'.zip) : apkg'.zip[i] = name]_vars

\* C29: the collection file in the archive of a successful export holds the
\* note rows and the card rows the collection held when export was called,
\* and the export leaves the collection as it was.
C29_RoundTrip ==
    [][\A fail \in Failures, written \in 0..(MaxMedia + 2) :
          (\/ export_apkg(fail, written)
           \/ \E listdir \in Listings : export_to_apkg(fail, written, listdir))
          => /\ UNCHANGED <<col, notes, cards, revlog, disk>>
             /\ last'.outcome \in {"True", "ok"}
                => /\ apkg'.collection.notes = notes
                   /\ apkg'.collection.cards = cards]_vars

(***************************************************************************)
(* The checksum functions called on their own.  The value a call returns   *)
(* is kept as its two 16-bit halves, since it can be 2^31 or more.         *)
(***************************************************************************)
MaxText == 4

\* the characters of a text: H and the highest code point
Chars == {72, 1114111}
Texts == UNION {[1..n -> Chars] : n \in 0..MaxText}

\* self._checksum(text) of AnkiFlashcardApp
call_checksum(text) ==
    /\ impl = "AnkiFlashcardApp"
    /\ last' = Call("_checksum", "ok", 0, 0,
                    [text |-> text, val |-> checksum_from(Zero32, text)])
    /\ UNCHANGED <<media_files, apkg, impl, clock, col, anki, run, plain, steps, srv>>

\* self.calculate_checksum(text) of AnkiSM2
call_calculate_checksum(text) ==
    /\ impl \in AnkiSM2s
    /\ last' = Call("calculate_checksum", "ok", 0, 0,
                    [text |-> text, val |-> Word32(SumOrd(text))])
    /\ UNCHANGED <<media_files, apkg, impl, clock, col, anki, run, plain, steps, srv>>

(***************************************************************************)
(* SpecChecksum: notes are stored and the checksum functions are called    *)
(* while the clock moves.                                                  *)
(***************************************************************************)
InitChecksum == (InitAnkiSM2 \/ InitAnkiFlashcardApp) /\ Ready

NextChecksum ==
    \/ \E q \in Questions, a \in Answers, j \in AddJitters, d \in NewDues :
          Cardinality(DOMAIN cards) < NumSample + MaxAdd /\ add_card(q, a, j, d)
    \/ \E m \in DOMAIN col.models, d \in col.decks, f \in FieldsData, g \in Guids :
          \E t \in CardTimes(col.models[m].tmpls) :
              Cardinality(DOMAIN notes) < MaxNotes /\ add_note(m, d, f, g, t)
    \/ \E text \in Texts : call_checksum(text)
    \/ \E text \in Texts : call_calculate_checksum(text)
    \/ Tick

SpecChecksum == InitChecksum /\ [][NextChecksum]_vars

\* the last call was a call of a checksum function
ChecksumCalled == last.op \in {"_checksum", "calculate_checksum"}

\* C30: the sort field of every stored note is the first field of the note
\* and its stored checksum is the checksum of the sort field; the checksum
\* of a text is an unsigned 32-bit integer, 0..2^32-1, and a later call with
\* the same text returns the same value, whatever the clock reads and
\* whatever was stored in between.
C30_SortFieldAndChecksum ==
    /\ [](\A n \in DOMAIN notes :
            /\ notes[n].sfld = split(notes[n].flds)[1]
            /\ notes[n].csum = IF impl = "AnkiFlashcardApp"
                               THEN _checksum(notes[n].sfld)
                               ELSE calculate_checksum(notes[n].sfld))
    /\ [](ChecksumCalled
            => /\ last.before.val.hi \in 0..(Half - 1)
               /\ last.before.val.lo \in 0..(Half - 1))
    /\ [][(ChecksumCalled /\ ChecksumCalled' /\ last'.before.text = last.before.text)
          => last'.before.val = last.before.val]_vars

\* a note is stored whose sort field is its first field, and a checksum of
\* 2^31 or more has been returned after the clock moved
C30_LargeChecksumReturned ==
    /\ \E n \in DOMAIN notes : notes[n].flds # notes[n].sfld
    /\ ChecksumCalled
    /\ last.before.val.hi >= Half \div 2
    /\ clock > ReadyClock

\* C31: splitting the field blob of a stored note on the separator gives as
\* many fields as the model of the note defines and gives the field values
\* that were passed when the note was added, for every list of field values
\* add_note accepts.
C31_FieldsRoundTrip ==
    [][\A m \in DOMAIN col.models, d \in col.decks, f \in FieldsData \ {<<>>} :
          (clock \notin DOMAIN notes /\ AddNoteCall(m, d, f) /\ last'.outcome = "ok")
          => /\ split(notes'[clock].flds) = f
             /\ Len(split(notes'[clock].flds)) = col.models[m].flds]_vars

(***************************************************************************)
(* SpecFrame: the store of review_and_export_v2.py under the scheduler and *)
(* under the calls that are not the scheduler.                             *)
(***************************************************************************)
NextFrame ==
    \/ \E c \in DOMAIN cards, q \in StoreQualities, t \in SpentTimes :
          Reviewed < MaxReviews /\ apply_sm2_algorithm(c, q, t)
    \/ \E q \in Questions, a \in Answers, j \in AddJitters, d \in NewDues :
          Cardinality(DOMAIN cards) < NumSample + MaxAdd /\ add_card(q, a, j, d)
    \/ Cardinality(col.decks) < 2 + MaxAdd /\ add_deck
    \/ get_cards_due_today
    \/ \E listdir \in Listings : export_to_apkg("none", 4, listdir)

SpecFrame == InitDue /\ [][NextFrame]_vars

\* C32: an existing card is changed by the scheduler alone: add_card,
\* add_deck, get_cards_due_today and export leave every card row the
\* collection has as it was.
C32_OnlySchedulerChangesCards ==
    [][last'.op \in {"add_card", "add_deck", "get_cards_due_today", "export_to_apkg"}
       => \A c \in DOMAIN cards : c \in DOMAIN cards' /\ cards'[c] = cards[c]]_vars

(***************************************************************************)
(* Initialization run again.  AnkiFlashcardApp.initialize_database and     *)
(* AnkiSM2.create_tables create the tables IF NOT EXISTS and insert the    *)
(* col row only when the col table is found to have no row.               *)
(***************************************************************************)
\* the col row written whether or not the table has a row
insert_or_replace_col_row(table, models, decks) == Collection(models, decks)

\* the INSERT INTO col behind the test that col has no row
insert_col_row(table, models, decks) ==
    IF table.ids = {} THEN Collection(models, decks) ELSE table

\* AnkiFlashcardApp.initialize_database() on the database the program has
initialize_database ==
    /\ impl = "AnkiFlashcardApp"
    /\ col' = insert_col_row(col, clock :> basic_model, {DefaultDeckId})
    /\ last' = Call("initialize_database", "ok", 0, 0, NoRow)
    /\ UNCHANGED <<media_files, apkg, impl, clock, anki, run, plain, steps, srv>>

\* AnkiSM2(db_path) of review_and_export_v2.py on the database file the
\* program has written: a new connection, create_tables, and, the notes
\* table having rows, the search for the model and the deck by name
__init__ ==
    /\ impl = "AnkiSM2"
    /\ DOMAIN disk.notes # {}
    /\ col' = insert_col_row(col, clock :> basic_model, {DefaultDeckId})
    /\ notes' = disk.notes
    /\ cards' = disk.cards
    /\ revlog' = disk.revlog
    /\ last' = Call("__init__", "ok", 0, 0, NoRow)
    /\ UNCHANGED <<media_files, apkg, impl, clock, disk, run, plain, steps, srv>>

(***************************************************************************)
(* SpecInit: both programs with models and decks added, reviews made and   *)
(* the initialization run again.                                           *)
(***************************************************************************)
NextInit ==
    \/ \E input \in ModelInputs :
          Cardinality(DOMAIN col.models) < 1 + MaxAdd /\ add_model(input[1], input[2])
    \/ Cardinality(col.decks) < 2 + MaxAdd /\ add_deck
    \/ \E c \in DOMAIN cards, q \in StoreQualities, t \in SpentTimes :
          Reviewed < MaxReviews /\ apply_sm2_algorithm(c, q, t)
    \/ initialize_database
    \/ __init__
    \/ Tick

SpecInit == InitExport /\ [][NextInit]_vars

\* C33: the col table holds exactly one row, with id 1, in every state
\* after the first initialization, and running the initialization again
\* (initialize_database, or AnkiSM2 constructed on the existing database)
\* adds no row and leaves the stored models and decks documents as they are.
C33_CollectionRowKept ==
    /\ [](col.ids = {1})
    /\ [][(initialize_database \/ __init__) => col' = col]_vars

\* the initialization has run again on a collection that has a model of
\* its own next to the Basic model and a deck next to the Default deck
C33_InitializedAgain ==
    /\ last.op = "initialize_database"
    /\ Cardinality(DOMAIN col.models) = 2
    /\ \E m \in DOMAIN col.models : col.models[m] # basic_model
    /\ Cardinality(col.decks) = 2

(***************************************************************************)
(* The read requests of the server.  Each request opens its own connection *)
(* and every write request commits before it answers.                      *)
(***************************************************************************)
\* LIMIT 10 of GET /review
ReviewLimit == 10

\* GET /cards: SELECT * FROM cards
get_all_cards ==
    /\ impl = "server"
    /\ last' = Call("get_all_cards", "200", 0, 0,
                    {[id |-> i] @@ srv[i] : i \in DOMAIN srv})
    /\ UNCHANGED <<media_files, apkg, impl, col, clock, anki, run, plain, steps, srv>>

\* GET /review: at most ten of the rows with due_date <= now, picked by
\* ORDER BY RANDOM()
get_review_cards(picked) ==
    /\ impl = "server"
    /\ LET due == {i \in DOMAIN srv : srv[i].due_date <= current_time(clock)} IN
         /\ picked \subseteq due
         /\ Cardinality(picked) = IF Cardinality(due) < ReviewLimit
                                  THEN Cardinality(due) ELSE ReviewLimit
    /\ last' = Call("get_review_cards", "200", 0, 0, {[id |-> i] @@ srv[i] : i \in picked})
    /\ UNCHANGED <<media_files, apkg, impl, col, clock, anki, run, plain, steps, srv>>

\* GET /upcoming: the rows with due_date > now
get_upcoming_reviews ==
    /\ impl = "server"
    /\ last' = Call("get_upcoming_reviews", "200", 0, 0,
                    {[id |-> i] @@ srv[i] :
                        i \in {c \in DOMAIN srv : srv[c].due_date > current_time(clock)}})
    /\ UNCHANGED <<media_files, apkg, impl, col, clock, anki, run, plain, steps, srv>>

\* GET /export: reads the cards with SELECT * FROM cards and hands them to
\* the anki package, which answers or raises
server_export(status) ==
    /\ impl = "server"
    /\ last' = Call("export_to_apkg", status, 0, 0, NoRow)
    /\ UNCHANGED <<media_files, apkg, impl, col, clock, anki, run, plain, steps, srv>>

(***************************************************************************)
(* SpecServer: the server under its six requests.                          *)
(***************************************************************************)
\* the difficulty of a POST /review request: a failing and a passing one
Difficulties == {2, 4}

InitServerReady == InitServer /\ Ready

NextServer ==
    \/ \E q \in Questions, a \in Answers :
          Len(srv) <= MaxAdd /\ post_card(q, a)
    \/ \E c \in DOMAIN srv \cup {0}, d \in Difficulties :
          ServerReviewed < MaxReviews /\ process_review(c, d)
    \/ get_all_cards
    \/ \E picked \in SUBSET DOMAIN srv : get_review_cards(picked)
    \/ get_upcoming_reviews
    \/ \E status \in {"200", "500"} : server_export(status)
    \/ Tick

SpecServer == InitServerReady /\ [][NextServer]_vars

\* C34: POST /cards with a front and a back answers 201 with the id of a new
\* card that holds them; no later request removes a card or rewrites its
\* front or back, and GET /cards answers with every stored card, so every
\* later GET /cards includes the card.
C34_AddedCardStays ==
    [][/\ \A q \in Questions, a \in Answers :
             post_card(q, a)
             => /\ last'.outcome = "201"
                /\ last'.id \notin DOMAIN srv
                /\ last'.id \in DOMAIN srv'
                /\ srv'[last'.id].front = q /\ srv'[last'.id].back = a
       /\ \A i \in DOMAIN srv :
             /\ i \in DOMAIN srv'
             /\ srv'[i].front = srv[i].front
             /\ srv'[i].back = srv[i].back
       /\ get_all_cards
             => \A i \in DOMAIN srv :
                   \E r \in last'.before :
                      r.id = i /\ r.front = srv[i].front /\ r.back = srv[i].back]_vars

\* GET /cards has answered with two cards, one of them reviewed, after the
\* clock moved
C34_ListedAfterReview ==
    /\ last.op = "get_all_cards"
    /\ \E r, t \in last.before : r.id # t.id /\ r.repetitions > 0
    /\ clock > ReadyClock

\* C35: a card that GET /review returns is in the cards table; POST /review
\* for a card id of the table answers 200 and stores the due date, the
\* interval and the ease factor of calculate_next_review in that card, the
\* due date interval days after the request, and leaves the other cards as
\* they were; POST /review for an id that is not in the table answers 404
\* and changes no card.
C35_ReviewOfListedCard ==
    [][/\ last'.op = "get_review_cards" => \A r \in last'.before : r.id \in DOMAIN srv
       /\ \A c \in DOMAIN srv \cup {0}, d \in Difficulties :
             (last'.op = "process_review" /\ process_review(c, d))
             => IF c \in DOMAIN srv
                THEN /\ last'.outcome = "200"
                     /\ srv'[c].interval = calculate_next_review(srv[c], d, clock).interval
                     /\ srv'[c].ease_factor = calculate_next_review(srv[c], d, clock).ease_factor
                     /\ srv'[c].due_date
                          = current_time(clock) + srv'[c].interval * SecondsPerDay
                     /\ \A i \in DOMAIN srv \ {c} : srv'[i] = srv[i]
                ELSE /\ last'.outcome = "404"
                     /\ srv' = srv]_vars

\* a card that GET /review had returned was reviewed with success, and a
\* review of an unknown id was answered with 404 after that
C35_ListedCardReviewed ==
    /\ last.op = "process_review"
    /\ last.outcome = "404"
    /\ \E i \in DOMAIN srv : srv[i].repetitions > 0
    /\ Len(srv) = 2

\* C36: a review with a difficulty below 3 resets the card: the stored card
\* has repetitions 0 and interval 1 after process_review.
C36_FailedReviewResets ==
    [][\A c \in DOMAIN srv, d \in {x \in Difficulties : x < 3} :
          process_review(c, d)
          => /\ srv'[c].repetitions = 0
             /\ srv'[c].interval = 1]_vars

(***************************************************************************)
(* SpecScheduler: the AnkiSM2 store under scheduler calls alone, at the    *)
(* same millisecond or later ones.                                         *)
(***************************************************************************)
NextScheduler ==
    \/ \E c \in DOMAIN cards, q \in StoreQualities, t \in SpentTimes :
          Reviewed < MaxReviews + 1 /\ apply_sm2_algorithm(c, q, t)
    \/ Tick

SpecScheduler == InitDue /\ [][NextScheduler]_vars

\* the committed review-log rows of a card with a pass/fail type
CommittedLog(c, type) == {r \in disk.revlog : r.cid = c /\ r.type = type}

\* C37: in every committed state that scheduler calls reach, the lapses of a
\* card are the number of its review-log rows of type 0 and its reps the
\* number of its rows of type 1.
C37_CountersMatchLog ==
    \A c \in DOMAIN disk.cards :
        /\ disk.cards[c].lapses = Cardinality(CommittedLog(c, 0))
        /\ disk.cards[c].reps = Cardinality(CommittedLog(c, 1))

(***************************************************************************)
(* SpecCards: the AnkiSM2 store under the two methods that write cards     *)
(* rows, the scheduler and add_card.                                       *)
(***************************************************************************)
NextCards ==
    \/ \E c \in DOMAIN cards, q \in StoreQualities \cap ValidQualities, t \in SpentTimes :
          Reviewed < MaxReviews + 1 /\ apply_sm2_algorithm(c, q, t)
    \/ \E q \in Questions, a \in Answers, j \in AddJitters, d \in NewDues :
          Cardinality(DOMAIN cards) < NumSample + MaxAdd /\ add_card(q, a, j, d)
    \/ Tick

SpecCards == InitDue /\ [][NextCards]_vars

\* the columns of a cards row agree with its queue
QueueAgrees(card) ==
    /\ card.type = card.queue
    /\ card.queue \in {0, 1, 2}
    /\ card.queue = 0 => card.ivl = 0 /\ card.reps = 0 /\ card.lapses = 0 /\ card.left = 0
    /\ card.queue = 1 => card.ivl = 1 /\ card.left = 3 /\ card.lapses >= 1
    /\ card.queue = 2 => card.left = 0 /\ card.reps >= 1 /\ (card.ivl = 1 \/ card.ivl >= 6)

\* C38: in every reachable state every card, as the connection reads it and
\* as the file holds it, has type = queue in {0, 1, 2}; a new card has
\* interval, reps, lapses and left 0; a learning card interval 1, left 3 and
\* at least one lapse; a review card left 0, at least one rep and an
\* interval of 1 or of at least 6.
C38_ColumnsAgreeWithQueue ==
    /\ \A c \in DOMAIN cards : QueueAgrees(cards[c])
    /\ \A c \in DOMAIN disk.cards : QueueAgrees(disk.cards[c])

\* a card was added, and the cards hold a new one and one whose third
\* passing review multiplied its interval
C38_EveryQueueSeen ==
    /\ \E c \in DOMAIN cards : cards[c].queue = 0
    /\ \E c \in DOMAIN cards : cards[c].queue = 2 /\ cards[c].ivl > 6
    /\ Cardinality(DOMAIN cards) > NumSample

\* C39: a reviewed card never returns to the new queue: in every committed
\* state a card is in queue 0 exactly when the review log has no row of it,
\* a card whose queue is not 0 keeps a queue that is not 0, and a row that
\* changes moves to the learning or to the review queue.
C39_ReviewedNeverNew ==
    /\ [](\A c \in DOMAIN disk.cards :
             disk.cards[c].queue = 0 <=> {r \in disk.revlog : r.cid = c} = {})
    /\ [][\A c \in DOMAIN disk.cards :
             /\ disk.cards[c].queue # 0 => disk.cards'[c].queue # 0
             /\ disk.cards'[c] # disk.cards[c] => disk.cards'[c].queue \in {1, 2}]_vars

\* C40: get_cards_due_today never returns a card of the learning queue,
\* whatever its due time and however much time has passed since the failed
\* review that put it there.
C40_LearningCardNotDue ==
    [][get_cards_due_today
       => \A c \in DOMAIN cards :
             cards[c].queue = 1 => \A r \in last'.before : r.id # c]_vars

\* the query ran a day after a failed review, with a card to return
C40_LapsedCardSkipped ==
    /\ last.op = "get_cards_due_today"
    /\ last.before # {}
    /\ \E c \in DOMAIN cards :
          /\ cards[c].queue = 1
          /\ cards[c].due < current_time(clock)

====
